---- MODULE Spec2Model ----
(***************************************************************************)
(* Model of withings2intervals.py: one invocation of main() after another, *)
(* sharing the files the program leaves on disk (the credential files and  *)
(* the ledger synced_weights.json).                                        *)
(***************************************************************************)
EXTENDS Integers, Sequences, FiniteSets, TLC

\* ------------------------------------------------------------------ bounds
\* Calendar days the measurement source can report readings for.
MaxDay == 2
\* Token pairs the OAuth endpoint issues over all runs.
MaxIssued == 2
\* Measurement sessions in the response of an aggregation run.
MaxSessions == 2

\* ------------------------------------------------------- values and inputs
\* The ledger's file name.
SYNCED_LOG == "synced_weights.json"

\* The path refresh() writes the refreshed token pair to.
REFRESH_PATH == "./withings.json"

\* Paths the operator may configure for the credential record.
CredPaths == {"./withings.json", "./tokens.json"}

\* Field sections the operator may have written: every field configured, or
\* the weight and blood pressure fields left empty.
FieldConfigs ==
  { [weight_field |-> "weight", bodyfat_field |-> "bodyFat",
     diastolic_field |-> "diastolic", systolic_field |-> "systolic",
     muscle_field |-> "muscle", temp_field |-> "temp"],
    [weight_field |-> "", bodyfat_field |-> "bodyFat",
     diastolic_field |-> "", systolic_field |-> "",
     muscle_field |-> "muscle", temp_field |-> "temp"] }

Days == 0 .. (MaxDay - 1)

\* Unix timestamps of measurement sessions: 08:00 of each day.
Timestamps == { d * 86400 + 8 * 3600 : d \in Days }

\* Reading lists of a session.
MeasureLists ==
  { << [type |-> 1, value |-> 800, unit |-> -1],
       [type |-> 9, value |-> 80, unit |-> 0],
       [type |-> 10, value |-> 120, unit |-> 0] >> }

Groups == [date : Timestamps, measures : MeasureLists]

\* The reading-group lists of a getmeas response: distinct sessions, oldest
\* first (the aggregation runs below take sessions in every order).
MeasureGroups ==
  UNION { { g \in [1 .. n -> Groups] :
              \A i, j \in 1 .. n : i < j => g[i].date < g[j].date } :
          n \in 0 .. Cardinality(Groups) }

\* Sessions of the aggregation runs: 08:00 and 20:00 of the first day and
\* 08:00 of the second.
AggTimestamps == { 8 * 3600, 20 * 3600, 86400 + 8 * 3600 }

\* Reading lists of the aggregation runs: no reading; a weight; a blood
\* pressure pair; two weights around a body fat and a temperature; a muscle
\* mass and both temperature types.
AggMeasureLists ==
  { << >>,
    << [type |-> 1, value |-> 800, unit |-> -1] >>,
    << [type |-> 9, value |-> 80, unit |-> 0],
       [type |-> 10, value |-> 120, unit |-> 0] >>,
    << [type |-> 1, value |-> 705, unit |-> -1],
       [type |-> 6, value |-> 185, unit |-> -1],
       [type |-> 71, value |-> 365, unit |-> -1],
       [type |-> 1, value |-> 712, unit |-> -1] >>,
    << [type |-> 76, value |-> 3210, unit |-> -2],
       [type |-> 71, value |-> 366, unit |-> -1],
       [type |-> 73, value |-> 370, unit |-> -1] >> }

AggGroups == [date : AggTimestamps, measures : AggMeasureLists]

\* The reading-group lists of the aggregation runs: up to MaxSessions
\* sessions, in any order, several of them on one day or with the same
\* readings.
AggMeasureGroups == UNION { [1 .. n -> AggGroups] : n \in 0 .. MaxSessions }

\* What requests.get(...) of get_measurements can end in: a transport
\* exception, or a response with a status code and a body that is not JSON,
\* JSON without "body", a body without "measuregrps", or a full body.
FetchResponses ==
  { [kind |-> "exception", status_code |-> 0, measuregrps |-> << >>] }
  \cup { [kind |-> k, status_code |-> s, measuregrps |-> << >>] :
           k \in {"not_json", "no_body", "no_measuregrps"}, s \in {200, 500} }
  \cup { [kind |-> "ok", status_code |-> s, measuregrps |-> g] :
           s \in {200, 500}, g \in MeasureGroups }

\* What requests.put(...) of set_wellness can end in.
UploadResponses ==
  { [kind |-> "exception", status_code |-> 0],
    [kind |-> "json", status_code |-> 200],
    [kind |-> "json", status_code |-> 201],
    [kind |-> "json", status_code |-> 500],
    [kind |-> "not_json", status_code |-> 500] }

\* What requests.post(...) of authenticate and refresh can end in: a
\* transport exception (or a body that is not JSON), a provider error
\* status, or status 0 with a token pair in the body.
ExchangeOutcomes == {"exception", "error_status", "ok"}

VARIABLES
  pc,            \* where main() is: "idle" before the first run
  config,        \* the configuration file: cfg path and field names
  args,          \* parse_args(): auth_code, force_resync
  disk,          \* the files on disk: path -> content, for the files that exist
  issued,        \* the number of the token pair the provider issued last
  access_token,  \* main's access_token; 0 while not assigned
  synced_days,   \* main's synced_days
  wellness,      \* main's wellness: date -> record
  idx,           \* position of the upload loop in sorted(wellness.items())
  exitCode,      \* -1 while running, else the process's exit status
  \* history of the current run
  fetched,       \* the response to this run's get_measurements call
  uploads,       \* the set_wellness calls of this run, in order
  res,           \* set_wellness's res, while the call is in progress
  ledgerAtStart, \* the dates in the ledger file when the run started
  saves,         \* save_synced_days calls of this run
  exchanges,     \* token exchanges (requests.post) of this run
  fetches,       \* get_measurements calls of this run
  fatal,         \* the fatal condition this run hit, "none" if none
  rerun,         \* the fetch returned what the previous, completed run got
  resolved,      \* this run's token exchange: its grant type ("none" before
                 \* it), whether the provider answered status 0, and the
                 \* credential file at cfg when the run started and when the
                 \* exchange had ended
  prev           \* the previous run: whether it completed, the id of one of
                 \* its failed uploads ("" for none), and the reading groups
                 \* it fetched, kept until this run has fetched its own

vars == << pc, config, args, disk, issued, access_token, synced_days,
           wellness, idx, exitCode, fetched, uploads, res, ledgerAtStart,
           saves, exchanges, fetches, fatal, rerun, resolved, prev >>

\* ------------------------------------------------------------- helpers
EmptyDict == [k \in {} |-> 0]

\* d[key] = val on a dict
Put(d, key, val) ==
  [k \in (DOMAIN d) \cup {key} |-> IF k = key THEN val ELSE d[k]]

IsFile(path) == path \in DOMAIN disk

Range(s) == { s[i] : i \in DOMAIN s }

\* list(a_set): the elements once each, in an order the caller cannot rely on
ListOf(S) ==
  { s \in [1 .. Cardinality(S) -> S] : Range(s) = S }

\* datetime.fromtimestamp(ts).date(), as the day number since the epoch
DateOf(ts) == ts \div 86400

TwoDigits(n) == IF n < 10 THEN "0" \o ToString(n) ELSE ToString(n)

\* str(day) of a datetime.date: ISO format, for the days of January 1970
Str(day) == "1970-01-" \o TwoDigits(day + 1)

\* day.strftime("%Y-%m-%d")
Strftime(day) == ToString(1970) \o "-" \o TwoDigits(1) \o "-" \o TwoDigits(day + 1)

RECURSIVE Pow10(_)
Pow10(n) == IF n = 0 THEN 1 ELSE 10 * Pow10(n - 1)

\* Mutant of Float: the unit exponent is not applied.
FloatUnscaled(value, unit) == value * 1000

\* float(value * (10 ** unit)), in thousandths
Float(value, unit) ==
  IF unit >= 0 THEN value * Pow10(unit) * 1000
  ELSE (value * 1000) \div Pow10(-unit)

\* Mutant of Enabled: the field name is not tested.
EnabledAlways(field) == TRUE

\* The truth value of a field name of the configuration: a field is synced
\* when its name is not empty (lines 143-153).
Enabled(field) == field # ""

\* Mutant of Store: the first value of a field is kept.
StoreFirst(rec, field, v) == IF field \in DOMAIN rec THEN rec ELSE Put(rec, field, v)

\* wellness[day][field] = v (lines 144-154)
Store(rec, field, v) == Put(rec, field, v)

\* The six ifs on one reading m of a group (lines 143-154).
Measure(rec, m, fields) ==
  LET v  == Float(m.value, m.unit)
      r1 == IF Enabled(fields.weight_field) /\ m.type = 1
              THEN Store(rec, fields.weight_field, v) ELSE rec
      r2 == IF Enabled(fields.bodyfat_field) /\ m.type = 6
              THEN Store(r1, fields.bodyfat_field, v) ELSE r1
      r3 == IF Enabled(fields.muscle_field) /\ m.type = 76
              THEN Store(r2, fields.muscle_field, v) ELSE r2
      r4 == IF Enabled(fields.diastolic_field) /\ m.type = 9
              THEN Store(r3, fields.diastolic_field, v) ELSE r3
      r5 == IF Enabled(fields.systolic_field) /\ m.type = 10
              THEN Store(r4, fields.systolic_field, v) ELSE r4
  IN  IF Enabled(fields.temp_field) /\ m.type \in {71, 73}
        THEN Store(r5, fields.temp_field, v) ELSE r5

RECURSIVE Measures(_, _, _)
Measures(rec, ms, fields) ==
  IF ms = << >> THEN rec
  ELSE Measures(Measure(rec, Head(ms), fields), Tail(ms), fields)

\* The loop over data["measuregrps"] (lines 138-155).
RECURSIVE Aggregated(_, _, _)
Aggregated(w, grps, fields) ==
  IF grps = << >> THEN w
  ELSE LET group == Head(grps)
           day   == DateOf(group.date)
           w1    == IF day \notin DOMAIN w THEN Put(w, day, EmptyDict) ELSE w
       IN  Aggregated(Put(w1, day, Measures(w1[day], group.measures, fields)),
                      Tail(grps), fields)

Min(S) == CHOOSE x \in S : \A y \in S : x <= y

\* sorted(wellness.items()): the dates in ascending order
RECURSIVE Sorted(_)
Sorted(S) ==
  IF S = {} THEN << >> ELSE << Min(S) >> \o Sorted(S \ {Min(S)})

\* load_synced_days(): the list in the file, or an empty collection
LoadSyncedDays == IF IsFile(SYNCED_LOG) THEN disk[SYNCED_LOG] ELSE << >>

\* set(x) of a list
SetOf(x) == Range(x)

\* The dates the persisted ledger holds.
LedgerDays == SetOf(LoadSyncedDays)

\* The token pair in the body of the n-th successful exchange.
TokenBody(n) == [access_token |-> n, refresh_token |-> n]

\* What the credential file at path holds in files: << >> when there is no
\* such file.
CredFileIn(files, path) ==
  IF path \in DOMAIN files THEN << files[path] >> ELSE << >>

\* The persisted credential record at the configured path.
CredFile == CredFileIn(disk, config.cfg)


\* ---------------------------------------------------------------- state
Args == [auth_code : BOOLEAN, force_resync : BOOLEAN]

NoResponse == [kind |-> "none", status_code |-> 0, measuregrps |-> << >>]

NoUpload == [kind |-> "none", status_code |-> 0]

Init ==
  /\ pc = "idle"
  /\ config \in [cfg : CredPaths, fields : FieldConfigs]
  /\ args = [auth_code |-> FALSE, force_resync |-> FALSE]
  /\ disk = EmptyDict
  /\ issued = 0
  /\ access_token = 0
  /\ synced_days = {}
  /\ wellness = EmptyDict
  /\ idx = 1
  /\ exitCode = -1
  /\ fetched = NoResponse
  /\ uploads = << >>
  /\ res = NoUpload
  /\ ledgerAtStart = {}
  /\ saves = 0
  /\ exchanges = 0
  /\ fetches = 0
  /\ fatal = "none"
  /\ rerun = FALSE
  /\ resolved = [grant |-> "none", ok |-> FALSE, before |-> << >>, after |-> << >>]
  /\ prev = [done |-> FALSE, failed |-> "", data |-> << >>]

\* The process is not running: before the first run, or after one ended.
Stopped == pc \in {"idle", "done", "exited"}

\* set_wellness's log line for a response (lines 174-189): the only thing it
\* reports; it returns None in every case.
SetWellness(r) ==
  IF r.kind = "exception" THEN "exception"
  ELSE IF r.status_code # 200
         THEN (IF r.kind = "not_json" THEN "exception" ELSE "failed")
         ELSE "uploaded"

\* History kept for the properties: an upload the wellness sink did not
\* accept, which is an exception or a status outside 2xx.
UploadFailed(r) ==
  r.kind = "exception" \/ r.status_code \notin 200 .. 299

FailedIds == { uploads[i].id : i \in { j \in DOMAIN uploads : uploads[j].failed } }

\* A process starts: the variables of main() are fresh, the disk is what the
\* runs before left, and the history of the ended run becomes prev.
BeginRun(a) ==
  /\ args' = a
  /\ access_token' = 0
  /\ synced_days' = {}
  /\ wellness' = EmptyDict
  /\ idx' = 1
  /\ uploads' = << >>
  /\ res' = NoUpload
  /\ ledgerAtStart' = LedgerDays
  /\ saves' = 0
  /\ exchanges' = 0
  /\ fetches' = 0
  /\ rerun' = FALSE
  /\ resolved' = [grant |-> "none", ok |-> FALSE, before |-> CredFile,
                  after |-> CredFile]
  /\ \E f \in (IF pc = "done" THEN FailedIds ELSE {}) \cup {""} :
       prev' = [done |-> (pc = "done"), failed |-> f,
                data |-> IF pc = "done" THEN fetched.measuregrps ELSE << >>]
  /\ fetched' = NoResponse
  /\ UNCHANGED << config, disk, issued >>

\* sys.exit(1), or an exception nothing catches
Exit(cause) ==
  /\ pc' = "exited"
  /\ exitCode' = 1
  /\ fatal' = cause

\* load_config (lines 23-26): the file given by --config does not exist
LoadConfigMissing ==
  /\ Stopped
  /\ \E a \in Args : BeginRun(a)
  /\ Exit("config")

\* parse_args, load_config and the reads of the configuration (lines 79-102)
LoadConfig ==
  /\ Stopped
  /\ \E a \in Args : BeginRun(a)
  /\ pc' = "auth"
  /\ exitCode' = -1
  /\ fatal' = "none"

\* The file refresh() writes the new token pair to (line 234).
RefreshTarget(cfg) == REFRESH_PATH

\* Mutant of WantsRefresh: an authorization code on the command line makes
\* the run bootstrap again.
WantsRefreshUnlessCode(a) == IsFile(config.cfg) /\ ~a.auth_code

\* Whether main() refreshes the stored credential (line 105).
WantsRefresh(a) == IsFile(config.cfg)

\* Mutant of Succeeded: every answer of the provider is taken for a token
\* pair.
SucceededOnAnyAnswer(out) == out # "exception"

\* Whether an exchange produced a token pair: out["status"] == 0 (lines 206,
\* 233).
Succeeded(out) == out = "ok"

\* The body of a provider answer with an error status: no token pair.
ErrorBody == [error |-> "invalid"]

\* One token exchange: the request with grant type grant, and on success the
\* write of the body to path (lines 193-216, 220-243).
Exchange(grant, path) ==
  /\ exchanges' = exchanges + 1
  /\ \E out \in ExchangeOutcomes :
       IF Succeeded(out)
         THEN /\ issued < MaxIssued
              /\ issued' = issued + 1
              /\ LET body  == IF out = "ok" THEN TokenBody(issued + 1) ELSE ErrorBody
                     files == Put(disk, path, body)
                 IN  /\ disk' = files
                     /\ resolved' = [resolved EXCEPT !.grant = grant,
                                                     !.ok = (out = "ok"),
                                                     !.after = CredFileIn(files, config.cfg)]
              /\ access_token' = TokenBody(issued + 1).access_token
              /\ pc' = "start_date"
              /\ UNCHANGED << exitCode, fatal >>
         ELSE /\ Exit("exchange")
              /\ resolved' = [resolved EXCEPT !.grant = grant]
              /\ UNCHANGED << issued, disk, access_token >>
  /\ UNCHANGED << config, args, synced_days, wellness, idx, fetched, uploads, res,
                  ledgerAtStart, saves, fetches, rerun, prev >>

\* refresh (lines 105-109, 219-243)
Refresh ==
  /\ pc = "auth"
  /\ WantsRefresh(args)
  /\ Exchange("refresh_token", RefreshTarget(config.cfg))

\* Mutant of HasAuthCode: the test for the code is missing.
HasAuthCodeUnchecked(a) == TRUE

\* Whether main() may call authenticate (line 111).
HasAuthCode(a) == a.auth_code

\* authenticate (lines 111-114, 192-216)
Authenticate ==
  /\ pc = "auth"
  /\ ~WantsRefresh(args)
  /\ HasAuthCode(args)
  /\ Exchange("authorization_code", config.cfg)

\* No credential file and no --auth-code (lines 115-117)
NoAuthCode ==
  /\ pc = "auth"
  /\ ~WantsRefresh(args)
  /\ ~HasAuthCode(args)
  /\ Exit("auth_code")
  /\ UNCHANGED << config, args, disk, issued, access_token, synced_days,
                  wellness, idx, fetched, uploads, res, ledgerAtStart, saves,
                  exchanges, fetches, rerun, resolved, prev >>

\* Mutant of InitialSyncedDays: the ledger file is not read.
InitialSyncedDaysNotLoaded(a) == {}

\* Mutant of InitialSyncedDays: a forced resync starts from an empty ledger.
InitialSyncedDaysClearedByForce(a) ==
  IF a.force_resync THEN {} ELSE SetOf(LoadSyncedDays)

\* main's synced_days when the upload loop starts (line 132)
InitialSyncedDays(a) == SetOf(LoadSyncedDays)

\* The start date and the load of the ledger (lines 119-132)
StartDate ==
  /\ pc = "start_date"
  /\ \E start \in {"none", "valid", "invalid"} :
       IF start = "invalid"
         THEN /\ Exit("start_date")
              /\ UNCHANGED synced_days
         ELSE /\ synced_days' = InitialSyncedDays(args)
              /\ pc' = "fetch"
              /\ UNCHANGED << exitCode, fatal >>
  /\ UNCHANGED << config, args, disk, issued, access_token, wellness, idx,
                  fetched, uploads, res, ledgerAtStart, saves, exchanges, fetches,
                  rerun, resolved, prev >>

\* Whether get_measurements returns the body of res (lines 249-260); it
\* exits on an exception of requests.get, of res.json() or of ["body"].
ReturnsBody(r) == r.kind \in {"no_measuregrps", "ok"}

\* get_measurements (lines 136, 246-263)
GetMeasurements ==
  /\ pc = "fetch"
  /\ fetches' = fetches + 1
  /\ \E r \in FetchResponses :
       /\ fetched' = r
       /\ rerun' = (prev.done /\ r.kind = "ok" /\ r.measuregrps = prev.data)
       /\ prev' = [prev EXCEPT !.data = << >>]
       /\ IF ReturnsBody(r)
            THEN /\ pc' = "aggregate"
                 /\ UNCHANGED << exitCode, fatal >>
            ELSE Exit("fetch")
  /\ UNCHANGED << config, args, disk, issued, access_token, synced_days,
                  wellness, idx, uploads, res, ledgerAtStart, saves, exchanges,
                  resolved >>

\* The aggregation loop (lines 138-156); data["measuregrps"] raises KeyError
\* on a body without the key, which nothing catches.
Aggregate ==
  /\ pc = "aggregate"
  /\ IF fetched.kind = "ok"
       THEN /\ wellness' = Aggregated(EmptyDict, fetched.measuregrps, config.fields)
            /\ pc' = "loop"
            /\ UNCHANGED << exitCode, fatal >>
       ELSE /\ Exit("fetch")
            /\ UNCHANGED wellness
  /\ UNCHANGED << config, args, disk, issued, access_token, synced_days, idx,
                  fetched, uploads, res, ledgerAtStart, saves, exchanges, fetches,
                  rerun, resolved, prev >>

\* Mutant of Items: the days are taken in descending order.
ItemsDescending ==
  LET asc == Sorted(DOMAIN wellness)
  IN  [i \in 1 .. Len(asc) |-> asc[Len(asc) + 1 - i]]

\* Mutant of Items: days without a stored reading are left out of the loop.
ItemsWithReadings == Sorted({ d \in DOMAIN wellness : wellness[d] # EmptyDict })

\* The days of the upload loop, in its order (line 157).
Items == Sorted(DOMAIN wellness)

\* Mutant of Skips: the force flag is read the wrong way round.
SkipsWhenForced(day, synced, a) == Str(day) \in synced /\ a.force_resync

\* Mutant of Skips: the force flag is not read.
SkipsIgnoringForce(day, synced, a) == Str(day) \in synced

\* The skip test of the upload loop (line 158)
Skips(day, synced, a) == Str(day) \in synced /\ ~a.force_resync

\* synced_days after set_wellness returned for day (line 165); the call
\* returns nothing, so what it logged does not reach main.
AfterUpload(synced, day, logged) == synced \cup {Str(day)}

\* One pass of the loop for a day already synced (lines 158-161)
SkipDay ==
  /\ pc = "loop"
  /\ idx <= Len(Items)
  /\ Skips(Items[idx], synced_days, args)
  /\ idx' = idx + 1
  /\ UNCHANGED << pc, config, args, disk, issued, access_token, synced_days,
                  wellness, exitCode, fetched, uploads, res, ledgerAtStart, saves,
                  exchanges, fetches, fatal, rerun, resolved, prev >>

\* One pass of the loop that uploads: the id, and the call of set_wellness
\* up to its response (lines 162-164, 173-181)
SetWellnessCall ==
  /\ pc = "loop"
  /\ idx <= Len(Items)
  /\ ~Skips(Items[idx], synced_days, args)
  /\ LET day   == Items[idx]
         event == Put(wellness[day], "id", Strftime(day))
     IN  /\ wellness' = Put(wellness, day, event)
         /\ \E r \in UploadResponses :
              /\ res' = r
              /\ uploads' = Append(uploads, [id |-> event.id, event |-> event,
                                             failed |-> UploadFailed(r)])
  /\ pc' = "set_wellness"
  /\ UNCHANGED << config, args, disk, issued, access_token, synced_days, idx,
                  exitCode, fetched, ledgerAtStart, saves, exchanges, fetches,
                  fatal, rerun, resolved, prev >>

\* Mutant of Propagates: res.json() of the error log is outside the try.
PropagatesFromErrorLog(r) == r.kind = "not_json" /\ r.status_code # 200

\* Whether an exception of set_wellness reaches main(): the try of line 174
\* covers the whole body, the res.json() of the error log included.
Propagates(r) == FALSE

\* set_wellness logs and returns, and main records the day (lines 182-189, 165)
SetWellnessReturn ==
  /\ pc = "set_wellness"
  /\ IF Propagates(res)
       THEN /\ Exit("upload")
            /\ UNCHANGED << synced_days, idx >>
       ELSE /\ synced_days' = AfterUpload(synced_days, Items[idx], SetWellness(res))
            /\ idx' = idx + 1
            /\ pc' = "loop"
            /\ UNCHANGED << exitCode, fatal >>
  /\ res' = NoUpload
  /\ UNCHANGED << config, args, disk, issued, access_token, wellness,
                  fetched, uploads, ledgerAtStart, saves, exchanges,
                  fetches, rerun, resolved, prev >>

\* Mutant of ReadyToSave: the ledger is saved from inside the loop.
ReadyToSaveInLoop == TRUE

\* Whether the loop has handed control to save_synced_days (line 169).
ReadyToSave == idx > Len(Items)

\* save_synced_days and the end of main (lines 166-170, 73-75)
SaveSyncedDays ==
  /\ pc = "loop"
  /\ ReadyToSave
  /\ \E l \in ListOf(synced_days) : disk' = Put(disk, SYNCED_LOG, l)
  /\ saves' = saves + 1
  /\ pc' = "done"
  /\ exitCode' = 0
  /\ UNCHANGED << config, args, issued, access_token, synced_days, wellness,
                  idx, fetched, uploads, res, ledgerAtStart, exchanges, fetches,
                  fatal, rerun, resolved, prev >>

Next ==
  \/ LoadConfigMissing
  \/ LoadConfig
  \/ Refresh
  \/ Authenticate
  \/ NoAuthCode
  \/ StartDate
  \/ GetMeasurements
  \/ Aggregate
  \/ SkipDay
  \/ SetWellnessCall
  \/ SetWellnessReturn
  \/ SaveSyncedDays

Spec == Init /\ [][Next]_vars

\* ------------------------------------------------------ aggregation runs
\* A run from the return of get_measurements on (line 137), with or without
\* force-resync: the token was refreshed, the ledger an earlier run left is
\* loaded, and the response holds any of the reading-group lists of
\* AggMeasureGroups.
InitAggregate ==
  /\ pc = "aggregate"
  /\ config \in [cfg : {REFRESH_PATH}, fields : FieldConfigs]
  /\ args \in [auth_code : {FALSE}, force_resync : BOOLEAN]
  /\ \E ledger \in { << >>, << Str(0) >> } :
       /\ disk = Put(Put(EmptyDict, REFRESH_PATH, TokenBody(MaxIssued)),
                     SYNCED_LOG, ledger)
       /\ synced_days = SetOf(ledger)
       /\ ledgerAtStart = SetOf(ledger)
  /\ issued = MaxIssued
  /\ access_token = TokenBody(MaxIssued).access_token
  /\ wellness = EmptyDict
  /\ idx = 1
  /\ exitCode = -1
  /\ \E g \in AggMeasureGroups :
       fetched = [kind |-> "ok", status_code |-> 200, measuregrps |-> g]
  /\ uploads = << >>
  /\ res = NoUpload
  /\ saves = 0
  /\ exchanges = 1
  /\ fetches = 1
  /\ fatal = "none"
  /\ rerun = FALSE
  /\ resolved = [grant |-> "refresh_token", ok |-> TRUE,
                 before |-> << TokenBody(MaxIssued - 1) >>,
                 after |-> << TokenBody(MaxIssued) >>]
  /\ prev = [done |-> FALSE, failed |-> "", data |-> << >>]

NextAggregate ==
  \/ Aggregate
  \/ SkipDay
  \/ SetWellnessCall
  \/ SetWellnessReturn
  \/ SaveSyncedDays

SpecAggregate == InitAggregate /\ [][NextAggregate]_vars


\* ---------------------------------------------------------------- claims
\* The ids set_wellness was called for in this run.
Attempted == { uploads[i].id : i \in DOMAIN uploads }

\* The ids whose upload the wellness sink accepted in this run.
SucceededIds == { uploads[i].id : i \in { j \in DOMAIN uploads : ~uploads[j].failed } }

\* The date strings of the days present in the fetched data.
DataDays == { Str(d) : d \in DOMAIN wellness }

\* A fetch the measurement source did not answer with a usable 2xx response.
FetchFailed(r) ==
  \/ r.kind \in {"exception", "not_json", "no_body", "no_measuregrps"}
  \/ r.kind = "ok" /\ r.status_code \notin 200 .. 299

\* C1: when a run reaches its end with day A's upload failed and day B's
\* accepted, the persisted ledger holds B and does not hold A unless A was
\* loaded at the start, and the exit status is zero; and a date enters the
\* in-memory ledger only when its upload was accepted.
C1_PartialFailureIsolation ==
  pc = "done" =>
    /\ exitCode = 0
    /\ \A a \in FailedIds : \A b \in SucceededIds :
         b \in LedgerDays /\ (a \in LedgerDays => a \in ledgerAtStart)
    /\ \A d \in synced_days \ ledgerAtStart : d \in SucceededIds

\* C2: a day whose upload failed in the previous, completed run is uploaded
\* again by this run when it runs without force-resync on data that holds
\* that day.
C2_FailedDayRetried ==
  (pc = "done" /\ prev.done /\ ~args.force_resync /\ prev.failed \in DataDays)
    => prev.failed \in Attempted

\* C3: a run without force-resync that fetches the reading groups the
\* previous, completed run fetched calls set_wellness for no day; and no run
\* calls it twice for one day.
C3_RerunUploadsNothing ==
  /\ (rerun /\ ~args.force_resync) => uploads = << >>
  /\ \A i, j \in DOMAIN uploads : i # j => uploads[i].id # uploads[j].id

C3_Witness ==
  /\ pc = "done" /\ rerun /\ ~args.force_resync
  /\ Cardinality(DataDays) = MaxDay

\* C4 as claimed: after a run with force-resync every fetched day was
\* uploaded and the persisted ledger equals the set of days of this run.
C4_LedgerEqualsDaysOfRun ==
  (pc = "done" /\ args.force_resync)
    => (Attempted = DataDays /\ LedgerDays = DataDays)

\* C4 as amended: after a run with force-resync every fetched day was
\* uploaded, the days of the loaded ledger included, and the persisted ledger
\* is the loaded ledger together with the days of this run.
C4_ForceResync ==
  /\ (pc = "done" /\ args.force_resync)
       => (Attempted = DataDays /\ LedgerDays = ledgerAtStart \cup DataDays)
  /\ (pc = "loop" /\ args.force_resync)
       => Attempted = { Str(Items[i]) : i \in 1 .. (idx - 1) }

C4_Witness ==
  /\ pc = "done" /\ args.force_resync
  /\ ledgerAtStart \cap Attempted # {}
  /\ ledgerAtStart \ DataDays # {}

\* C5: the persisted ledger holds every date it held when the run started,
\* whatever the run does, and a run that exits before save_synced_days
\* leaves it as it was.
C5_LedgerMonotone ==
  /\ ledgerAtStart \subseteq LedgerDays
  /\ pc = "exited" => (saves = 0 /\ LedgerDays = ledgerAtStart)
  /\ pc = "done" => synced_days = LedgerDays

C5_Witness ==
  /\ pc = "done" /\ args.force_resync
  /\ ledgerAtStart # {}
  /\ LedgerDays # ledgerAtStart

\* C6: once a run's token exchange has succeeded, the file at the configured
\* credential path holds the token pair that exchange returned, from before
\* the fetch until the next run loads it.
C6_CredentialsDurable ==
  access_token # 0
    => (IsFile(config.cfg) /\ disk[config.cfg] = TokenBody(issued))

\* C7: a run that hit a missing configuration file, a missing authorization
\* code, a failed exchange or a failed fetch has stopped (or is about to
\* raise) with a non-zero exit status, has uploaded nothing and has left the
\* persisted ledger as it was.
C7_FatalErrorsAbort ==
  (fatal \in {"config", "auth_code", "exchange", "fetch"} \/ FetchFailed(fetched))
    => /\ pc \in {"exited", "aggregate"}
       /\ pc = "exited" => exitCode # 0
       /\ exitCode # 0
       /\ uploads = << >>
       /\ saves = 0
       /\ LedgerDays = ledgerAtStart

\* C8: after a fetch that ended in a transport error, a status outside 2xx
\* or a body without an expected key, nothing is aggregated or uploaded and
\* the run exits non-zero.
C8_FetchFailureFatal ==
  FetchFailed(fetched)
    => /\ wellness = EmptyDict
       /\ uploads = << >>
       /\ pc \in {"exited", "aggregate"}
       /\ pc = "exited" => exitCode = 1

\* C9: a run that found no credential file and was given no authorization
\* code has exited non-zero without a token exchange, a fetch, an upload or
\* a ledger write.
C9_FirstRunGuard ==
  (pc \notin {"idle", "auth"} /\ ~IsFile(config.cfg) /\ ~args.auth_code)
    => /\ pc = "exited"
       /\ exitCode # 0
       /\ exchanges = 0
       /\ fetches = 0
       /\ uploads = << >>
       /\ saves = 0

C9_Witness == pc = "exited" /\ fatal = "auth_code" /\ ~IsFile(SYNCED_LOG)

\* C10: a run that reached its end wrote the ledger once, after the upload
\* loop had passed every day; a run that has not reached its end has not
\* written it; and every date the written ledger adds to the loaded one had
\* its upload attempted in this run.
C10_SaveDiscipline ==
  /\ pc = "done" => saves = 1
  /\ pc # "done" => (saves = 0 /\ LedgerDays = ledgerAtStart)
  /\ saves > 0 => (idx > Len(Items) /\ Len(uploads) <= Len(Items))
  /\ (LedgerDays \ ledgerAtStart) \subseteq Attempted

C10_Witness ==
  /\ pc = "done" /\ saves = 1
  /\ Len(uploads) = MaxDay
  /\ FailedIds # {}
  /\ LedgerDays # ledgerAtStart

\* The days of the fetched data the upload loop has to skip: in the ledger
\* loaded at the start, in a run without force-resync.
SkippedDays == IF args.force_resync THEN {} ELSE DataDays \cap ledgerAtStart

\* C11: whatever the wellness sink answers (success, a status that is not a
\* success, a transport exception, an error body that is not JSON), the run
\* does not stop in the upload loop: a run that has called set_wellness has
\* not exited, no answer makes the call raise into main, the loop has a next
\* day or hands over to save_synced_days, and at the end of the run every
\* day that was not skipped has had its upload attempted, the ledger has
\* been saved and the exit status is zero.
C11_UploadFailuresNeverAbort ==
  /\ pc = "exited" => uploads = << >>
  /\ pc \in {"loop", "set_wellness"} => (exitCode = -1 /\ fatal = "none")
  /\ pc = "loop" => (idx <= Len(Items) \/ ReadyToSave)
  /\ pc = "set_wellness" => (res \in UploadResponses /\ ~Propagates(res))
  /\ pc = "done"
       => /\ Attempted = DataDays \ SkippedDays
          /\ saves = 1
          /\ exitCode = 0

C11_Witness ==
  /\ pc = "done"
  /\ Len(uploads) = MaxDay
  /\ uploads[1].failed
  /\ ~uploads[MaxDay].failed

\* C12: set_wellness reports a response as a successful upload exactly when
\* its status is a 2xx status; every other status, and an exception, is
\* reported as a failure of that day.
C12_Any2xxIsSuccess ==
  pc = "set_wellness"
    => (SetWellness(res) = "uploaded"
          <=> (res.kind # "exception" /\ res.status_code \in 200 .. 299))

\* The day an upload id names.
IdDay(id) == CHOOSE d \in Days : Strftime(d) = id

\* C13: the set_wellness calls of a run are in strictly ascending order of
\* their dates, so no day is uploaded twice; the call in progress is the one
\* for the day the loop stands at; and a day the loop has passed had no call
\* exactly when its date string was in the ledger loaded at the start and
\* force-resync was not set.
C13_AscendingOrderAndSkipRule ==
  /\ \A i, j \in DOMAIN uploads :
       i < j => IdDay(uploads[i].id) < IdDay(uploads[j].id)
  /\ pc = "set_wellness"
       => (uploads # << >> /\ uploads[Len(uploads)].id = Str(Items[idx]))
  /\ pc \in {"loop", "done"}
       => \A k \in 1 .. (idx - 1) :
            Str(Items[k]) \notin Attempted
              <=> (Str(Items[k]) \in ledgerAtStart /\ ~args.force_resync)

\* A run with force-resync whose response lists the later day first and
\* whose loaded ledger holds a fetched day: both days were uploaded.
C13_Witness ==
  /\ pc = "done"
  /\ args.force_resync
  /\ ledgerAtStart \cap DataDays # {}
  /\ Len(fetched.measuregrps) = MaxSessions
  /\ fetched.measuregrps[1].date > fetched.measuregrps[MaxSessions].date
  /\ Len(uploads) = Cardinality(DataDays)
  /\ Len(uploads) > 1

\* The run found a credential file at the configured path when it started.
HadCredential == resolved.before # << >>

\* The grant type main() has to use: a refresh when a credential file was
\* stored, else a bootstrap.
DueGrant == IF HadCredential THEN "refresh_token" ELSE "authorization_code"

\* C14 as claimed: every run that read its configuration and has ended
\* performed exactly one token exchange, a refresh if a credential file was
\* stored and a bootstrap otherwise, and a run fetches only after its
\* exchange succeeded.
C14_EveryRunExchangesOnce ==
  /\ (pc \in {"done", "exited"} /\ fatal # "config")
       => (exchanges = 1 /\ resolved.grant = DueGrant)
  /\ fetches > 0 => (exchanges = 1 /\ resolved.ok)

\* C14 as amended: a run performs at most one token exchange, and it does so
\* before any fetch; a run that read its configuration performs one exactly
\* when a credential file was stored or an authorization code was supplied,
\* and none otherwise; the exchange is a refresh if a credential file was
\* stored, whether or not a code was supplied, and a bootstrap otherwise; and
\* a run fetches only after its exchange succeeded.
C14_CredentialResolution ==
  /\ exchanges <= 1
  /\ pc \in {"idle", "auth"} => (exchanges = 0 /\ fetches = 0)
  /\ (pc \notin {"idle", "auth"} /\ fatal # "config")
       => (exchanges = 1 <=> (HadCredential \/ args.auth_code))
  /\ exchanges = 0 => resolved.grant = "none"
  /\ exchanges = 1 => resolved.grant = DueGrant
  /\ fetches > 0 => (exchanges = 1 /\ resolved.ok /\ access_token # 0)

C14_Witness ==
  /\ fetches = 1
  /\ args.auth_code
  /\ resolved.grant = "refresh_token"

\* C15: the credential file at the configured path is what it was when the
\* run started until an exchange of the run succeeds, a failed exchange
\* included, and from then on it is what it was when that exchange ended:
\* no later step of the run changes it.
C15_CredentialRecordFrame ==
  /\ ~resolved.ok => (CredFile = resolved.before /\ resolved.after = resolved.before)
  /\ resolved.ok => CredFile = resolved.after
  /\ (pc = "exited" /\ fatal = "exchange") => ~resolved.ok

C15_Witness ==
  /\ pc = "done"
  /\ saves = 1
  /\ uploads # << >>
  /\ HadCredential
  /\ resolved.after # resolved.before

\* The readings of a reading-group list in input order, each with the day of
\* its group.
RECURSIVE Readings(_)
Readings(grps) ==
  IF grps = << >> THEN << >>
  ELSE LET g == Head(grps)
       IN  [i \in 1 .. Len(g.measures) |->
              [day |-> DateOf(g.date), type |-> g.measures[i].type,
               value |-> g.measures[i].value, unit |-> g.measures[i].unit]]
           \o Readings(Tail(grps))

\* The days the groups of a reading-group list fall on.
GroupDays(grps) == { DateOf(grps[i].date) : i \in DOMAIN grps }

\* The configured name of the field a measurement type belongs to: "" when
\* the field is not configured.
FieldOf(type, fields) ==
  CASE type = 1 -> fields.weight_field
    [] type = 6 -> fields.bodyfat_field
    [] type = 76 -> fields.muscle_field
    [] type = 9 -> fields.diastolic_field
    [] type = 10 -> fields.systolic_field
    [] type \in {71, 73} -> fields.temp_field
    [] OTHER -> ""

\* The positions, in the fetched readings, of the readings of a day that
\* belong to the field called name.
ReadingsFor(day, name) ==
  LET rs == Readings(fetched.measuregrps)
  IN  { i \in DOMAIN rs : rs[i].day = day /\ FieldOf(rs[i].type, config.fields) = name }

Max(S) == CHOOSE x \in S : \A y \in S : x >= y

\* The names of the configured fields.
FieldNames ==
  { config.fields[k] : k \in DOMAIN config.fields } \ { "" }

\* The aggregation loop has ended and the upload loop has not begun.
JustAggregated == pc = "loop" /\ idx = 1

\* C16: once the fetched groups are aggregated there is one day record for
\* each date a group falls on and for no other date; a record holds a
\* configured field exactly when some reading of its date belongs to that
\* field, and then the value is that of the last such reading in input order;
\* readings of types 71 and 73 belong to the one temperature field.
C16_OneRecordPerDayLastWins ==
  JustAggregated
    => /\ DOMAIN wellness = GroupDays(fetched.measuregrps)
       /\ \A day \in DOMAIN wellness :
            /\ DOMAIN wellness[day] \subseteq FieldNames
            /\ \A name \in FieldNames :
                 LET at == ReadingsFor(day, name)
                     rs == Readings(fetched.measuregrps)
                 IN  IF at = {} THEN name \notin DOMAIN wellness[day]
                     ELSE /\ name \in DOMAIN wellness[day]
                          /\ wellness[day][name]
                               = Float(rs[Max(at)].value, rs[Max(at)].unit)

\* Two sessions of one day: the weight is written twice, and the temperature
\* by both types and then again by the later group.
C16_Witness ==
  /\ JustAggregated
  /\ Len(fetched.measuregrps) = MaxSessions
  /\ Cardinality(DOMAIN wellness) = 1
  /\ \E day \in DOMAIN wellness :
       /\ Cardinality(ReadingsFor(day, "weight")) > 1
       /\ { Readings(fetched.measuregrps)[i].type : i \in ReadingsFor(day, "temp") }
            = {71, 73}
       /\ wellness[day]["weight"] = 71200
       /\ wellness[day]["temp"] = 36500

\* The positions, in the fetched readings, of the readings of a day.
ReadingsOn(day) ==
  LET rs == Readings(fetched.measuregrps)
  IN  { i \in DOMAIN rs : rs[i].day = day }

\* The field names the readings of a day belong to, "" for a reading whose
\* field is not configured.
FieldsRead(day) ==
  { FieldOf(Readings(fetched.measuregrps)[i].type, config.fields) : i \in ReadingsOn(day) }

\* C17: aggregation raises no error, and the record of a day holds the
\* configured fields its readings belong to and nothing for a reading whose
\* field is not configured; the day of such a reading has its record all the
\* same.
C17_UnconfiguredFieldDropped ==
  /\ pc # "exited" /\ fatal = "none"
  /\ JustAggregated
       => \A day \in GroupDays(fetched.measuregrps) :
            /\ day \in DOMAIN wellness
            /\ DOMAIN wellness[day] = FieldsRead(day) \ {""}

\* A day with weight readings while the weight field is not configured, and
\* with readings of configured fields.
C17_Witness ==
  /\ JustAggregated
  /\ config.fields.weight_field = ""
  /\ \E day \in DOMAIN wellness :
       /\ \E i \in ReadingsOn(day) : Readings(fetched.measuregrps)[i].type = 1
       /\ DOMAIN wellness[day] = {"bodyFat", "temp"}

\* The fetched groups hold the three readings of the merge scenario and no
\* other, all on one date; weight, diastolic and systolic are configured and
\* the loaded ledger is empty.
MergeScenario ==
  LET rs == Readings(fetched.measuregrps)
  IN  /\ ledgerAtStart = {}
      /\ config.fields.weight_field = "weight"
      /\ config.fields.diastolic_field = "diastolic"
      /\ config.fields.systolic_field = "systolic"
      /\ Cardinality(GroupDays(fetched.measuregrps)) = 1
      /\ Len(rs) = 3
      /\ { << rs[i].type, rs[i].value, rs[i].unit >> : i \in DOMAIN rs }
           = { << 1, 800, -1 >>, << 9, 80, 0 >>, << 10, 120, 0 >> }

\* C18: in the merge scenario the aggregated data is one day record with
\* weight 80.0, diastolic 80.0 and systolic 120.0 (in thousandths), and the
\* run makes one set_wellness call, for that record with the ISO date of the
\* day as its id.
C18_MergeScenario ==
  MergeScenario
    => /\ Len(uploads) <= 1
       /\ pc # "aggregate"
            => /\ Cardinality(DOMAIN wellness) = 1
               /\ \A day \in DOMAIN wellness :
                    /\ DOMAIN wellness[day] \ {"id"} = {"weight", "diastolic", "systolic"}
                    /\ wellness[day]["weight"] = 80000
                    /\ wellness[day]["diastolic"] = 80000
                    /\ wellness[day]["systolic"] = 120000
       /\ pc \in {"set_wellness", "done"}
            => /\ Len(uploads) = 1
               /\ \A day \in DOMAIN wellness :
                    /\ uploads[1].event = wellness[day]
                    /\ uploads[1].event["id"] = Str(day)
                    /\ day = 0 => uploads[1].id = "1970-01-01"

C18_Witness ==
  /\ MergeScenario
  /\ Len(fetched.measuregrps) = 2
  /\ pc = "done"
  /\ uploads[1].id = "1970-01-01"
  /\ ~uploads[1].failed

BareDays ==
  { day \in GroupDays(fetched.measuregrps) : FieldsRead(day) \ {""} = {} }

\* C20: a fetched day without a reading of a configured field has a day
\* record all the same; a set_wellness call for it carries a record whose
\* only key is id; and when the run has ended the day was either skipped,
\* being in the loaded ledger, or uploaded so, and its date is in the
\* persisted ledger.
C20_BareDayStillUploaded ==
  \A day \in BareDays :
    /\ pc # "aggregate" => day \in DOMAIN wellness
    /\ \A i \in DOMAIN uploads :
         uploads[i].id = Str(day) => DOMAIN uploads[i].event = {"id"}
    /\ pc = "done"
         => /\ Str(day) \in ledgerAtStart \/ Str(day) \in Attempted
            /\ Str(day) \in LedgerDays

\* A run that uploaded a day whose only readings are of fields that are not
\* configured, next to a day with a stored reading.
C20_Witness ==
  /\ pc = "done"
  /\ Len(uploads) > 1
  /\ \E day \in BareDays :
       /\ ReadingsOn(day) # {}
       /\ Str(day) \in Attempted \ ledgerAtStart
       /\ Str(day) \in LedgerDays
  /\ BareDays # GroupDays(fetched.measuregrps)

====
